---- MODULE Spec2Model ----
(***************************************************************************)
(* The grade-gated form workflow of cpp05 (ex00 .. ex03): bureaucrats      *)
(* holding a grade, abstract forms with a signing and an execution grade,  *)
(* the three concrete forms and their actions.                             *)
(*                                                                         *)
(* Every member function is one action.  A call that throws leaves the     *)
(* objects as they were and is recorded, with its exception, in `last`.    *)
(*                                                                         *)
(* The Span of cpp08/ex01 is modelled beside it, with its own actions.     *)
(***************************************************************************)
EXTENDS Integers, FiniteSets, Sequences, TLC

VARIABLES
    bureaucrats,  \* the Bureaucrat objects alive: slot -> [grade] or NoBureaucrat
    forms,        \* the AForm objects alive: slot -> form record or NoForm
    files,        \* names of the files the shrubbery action has written
    last,         \* the call made last: its arguments, what it threw and printed
    moves,        \* number of grade changes committed so far
    calls,        \* per bureaucrat: the call it is inside, and the calls it has made
    span          \* the Span object of cpp08/ex01: _numbers and _maxSize

vars == <<bureaucrats, forms, files, last, moves, calls, span>>

(***************************************************************************)
(* Bounds of the model.                                                    *)
(***************************************************************************)
\* grade changes (incrementGrade / decrementGrade that commit) in one run
MaxMoves == 2

\* calls one bureaucrat makes while the others are inside theirs
MaxCalls == 2

\* the objects a run can hold at once, named as the tests name theirs
Bureaucrats == {"alice", "bob"}
Forms == {"f1", "f2"}

\* grades handed to the Bureaucrat constructor
GradeInputs == {0, 1, 25, 137, 150, 151}

\* targets handed to the concrete forms' constructors
Targets == {"home"}

\* grades handed to the Form constructor as gradeToSign and gradeToExecute
ThresholdInputs == {0, 1, 50, 150, 151}

\* form names handed to Intern::makeForm
FormNameInputs == {"shrubbery creation", "robotomy request", "presidential pardon",
                   "Robotomy Request", ""}

\* form names and targets handed to Intern::makeForm by the program of ex03
InternNameInputs == FormNameInputs \cup {"invalid form", "robotomy request ", "robotomy"}
InternTargets == {"home", ""}

\* int is 32 bits wide: std::numeric_limits<int>::max() and min()
INT_MAX == 2147483647
INT_MIN == -2147483647 - 1

\* N handed to Span(unsigned int N), numbers handed to addNumber
SpanSizes == {0, 2, 3}
NumberInputs == {INT_MIN, 0, 5, INT_MAX}

\* the ranges handed to addRange: `laps` blocks of 2^32 zeros (a
\* std::vector<char> of that size), then the elements `elems`
RangeInputs == {[laps |-> 0, elems |-> <<>>],
                [laps |-> 0, elems |-> <<2, 3>>],
                [laps |-> 0, elems |-> <<2, 3, 4, 5>>],
                [laps |-> 1, elems |-> <<>>]}

NoBureaucrat == [name |-> ""]
NoForm == [kind |-> "none"]
NoSpan == [alive |-> FALSE, maxSize |-> 0, numbers |-> <<>>, laps |-> 0]
Idle == [pc |-> "idle", f |-> "", log |-> <<>>]
\* a call: the member function, the bureaucrat, the form and the other form it
\* is made with, the grade it is given (for a member function of Bureaucrat and
\* for beSigned and execute: the caller's grade as the call starts), the form's
\* _signed as the call starts (for a copy: the source's), the exception it throws
\* and the message its action prints; acts counts the executeAction() calls it
\* makes and writes lists the files it asks the file system to open for writing
\* ret is the int a call of Span returns
NoCall == [op |-> "none", b |-> "", f |-> "", o |-> "", arg |-> 0, pre |-> FALSE,
           err |-> "none", out |-> "none", acts |-> 0, writes |-> <<>>, ret |-> 0]

Call(op, b, f, o, arg, pre, err, out) ==
    [op |-> op, b |-> b, f |-> f, o |-> o, arg |-> arg, pre |-> pre,
     err |-> err, out |-> out, acts |-> 0, writes |-> <<>>, ret |-> 0]

(***************************************************************************)
(* Bureaucrat.  Bureaucrat.cpp is not among the source files: the member   *)
(* functions follow the declarations of Bureaucrat.hpp and section 4.1 of  *)
(* the specification.                                                      *)
(***************************************************************************)
HighestGrade == 1
LowestGrade == 150

\* Bureaucrat(name, grade): the exception the constructor throws, or "none"
BureaucratCtorOffByOne(grade) ==
    IF grade < HighestGrade THEN "GradeTooHigh"
    ELSE IF grade > LowestGrade + 1 THEN "GradeTooLow"
    ELSE "none"

BureaucratCtor(grade) ==
    IF grade < HighestGrade THEN "GradeTooHigh"
    ELSE IF grade > LowestGrade THEN "GradeTooLow"
    ELSE "none"

\* incrementGrade(): computes grade - 1, throws if that is below 1, else commits
incrementGradeUnchecked(grade) ==
    [err |-> "none", grade |-> grade - 1]

incrementGradeNoCommit(grade) ==
    IF grade - 1 < HighestGrade
    THEN [err |-> "GradeTooHigh", grade |-> grade]
    ELSE [err |-> "none", grade |-> grade]

incrementGradeOutcome(grade) ==
    IF grade - 1 < HighestGrade
    THEN [err |-> "GradeTooHigh", grade |-> grade]
    ELSE [err |-> "none", grade |-> grade - 1]

\* decrementGrade(): computes grade + 1, throws if that is above 150, else commits
decrementGradeCommitFirst(grade) ==
    IF grade + 1 > LowestGrade
    THEN [err |-> "GradeTooLow", grade |-> grade + 1]
    ELSE [err |-> "none", grade |-> grade + 1]

decrementGradeOutcome(grade) ==
    IF grade + 1 > LowestGrade
    THEN [err |-> "GradeTooLow", grade |-> grade]
    ELSE [err |-> "none", grade |-> grade + 1]

Bureaucrat(b, grade) ==
    /\ bureaucrats[b] = NoBureaucrat
    /\ LET err == BureaucratCtor(grade) IN
        /\ bureaucrats' = IF err = "none"
                          THEN [bureaucrats EXCEPT ![b] = [name |-> b, grade |-> grade]]
                          ELSE bureaucrats
        /\ last' = Call("Bureaucrat", b, "", "", grade, FALSE, err, "none")
    /\ UNCHANGED <<forms, files, moves, calls, span>>

\* operator=: _name is const, the grade is what an assignment can copy
BureaucratAssign(b, other) ==
    /\ bureaucrats[b] # NoBureaucrat
    /\ bureaucrats[other] # NoBureaucrat
    /\ bureaucrats' = IF b # other
                      THEN [bureaucrats EXCEPT ![b].grade = bureaucrats[other].grade]
                      ELSE bureaucrats
    /\ last' = Call("Bureaucrat=", b, "", "", bureaucrats[b].grade, FALSE,
                    "none", "none")
    /\ UNCHANGED <<forms, files, moves, calls, span>>

BureaucratDtor(b) ==
    /\ bureaucrats[b] # NoBureaucrat
    /\ bureaucrats' = [bureaucrats EXCEPT ![b] = NoBureaucrat]
    /\ last' = Call("~Bureaucrat", b, "", "", 0, FALSE, "none", "none")
    /\ UNCHANGED <<forms, files, moves, calls, span>>

incrementGrade(b) ==
    /\ bureaucrats[b] # NoBureaucrat
    /\ LET r == incrementGradeOutcome(bureaucrats[b].grade) IN
        /\ r.err = "none" => moves < MaxMoves
        /\ bureaucrats' = [bureaucrats EXCEPT ![b].grade = r.grade]
        /\ moves' = IF r.err = "none" THEN moves + 1 ELSE moves
        /\ last' = Call("incrementGrade", b, "", "", bureaucrats[b].grade, FALSE,
                        r.err, "none")
    /\ UNCHANGED <<forms, files, calls, span>>

decrementGrade(b) ==
    /\ bureaucrats[b] # NoBureaucrat
    /\ LET r == decrementGradeOutcome(bureaucrats[b].grade) IN
        /\ r.err = "none" => moves < MaxMoves
        /\ bureaucrats' = [bureaucrats EXCEPT ![b].grade = r.grade]
        /\ moves' = IF r.err = "none" THEN moves + 1 ELSE moves
        /\ last' = Call("decrementGrade", b, "", "", bureaucrats[b].grade, FALSE,
                        r.err, "none")
    /\ UNCHANGED <<forms, files, calls, span>>

(***************************************************************************)
(* AForm (cpp05/ex02/AForm.cpp; ex01/Form.cpp is the same code without     *)
(* execute).                                                               *)
(***************************************************************************)
\* AForm(name, gradeToSign, gradeToExecute): the exception thrown, or "none"
AFormCtorSignOnly(gradeToSign, gradeToExecute) ==
    IF gradeToSign < 1 THEN "GradeTooHigh"
    ELSE IF gradeToSign > 150 THEN "GradeTooLow"
    ELSE "none"

AFormCtorLowFirst(gradeToSign, gradeToExecute) ==
    IF gradeToSign > 150 \/ gradeToExecute > 150 THEN "GradeTooLow"
    ELSE IF gradeToSign < 1 \/ gradeToExecute < 1 THEN "GradeTooHigh"
    ELSE "none"

AFormCtor(gradeToSign, gradeToExecute) ==
    IF gradeToSign < 1 \/ gradeToExecute < 1 THEN "GradeTooHigh"
    ELSE IF gradeToSign > 150 \/ gradeToExecute > 150 THEN "GradeTooLow"
    ELSE "none"

\* the members the AForm constructor initialises, _signed(false) among them
AFormInit(kind, name, gradeToSign, gradeToExecute, target) ==
    [kind |-> kind, name |-> name, signed |-> FALSE,
     gradeToSign |-> gradeToSign, gradeToExecute |-> gradeToExecute,
     target |-> target]

\* AForm(const AForm& other): every member is copied, _signed too
AFormCopyUnsigned(other) == [other EXCEPT !.signed = FALSE]

AFormCopy(other) == other

\* AForm::operator=: only _signed is assigned, the const members stay
AFormAssignAll(this, other) == other

AFormAssignNothing(this, other) == this

AFormAssign(this, other) == [this EXCEPT !.signed = other.signed]

\* beSigned(bureaucrat): throws GradeTooLow or sets _signed
beSignedStrict(form, grade) ==
    IF grade >= form.gradeToSign
    THEN [err |-> "GradeTooLow", form |-> form]
    ELSE [err |-> "none", form |-> [form EXCEPT !.signed = TRUE]]

beSignedOnce(form, grade) ==
    IF form.signed
    THEN [err |-> "none", form |-> form]
    ELSE IF grade > form.gradeToSign
    THEN [err |-> "GradeTooLow", form |-> form]
    ELSE [err |-> "none", form |-> [form EXCEPT !.signed = TRUE]]

beSignedReset(form, grade) ==
    IF grade > form.gradeToSign
    THEN [err |-> "GradeTooLow", form |-> [form EXCEPT !.signed = FALSE]]
    ELSE [err |-> "none", form |-> [form EXCEPT !.signed = TRUE]]

beSignedToggle(form, grade) ==
    IF grade > form.gradeToSign
    THEN [err |-> "GradeTooLow", form |-> form]
    ELSE [err |-> "none", form |-> [form EXCEPT !.signed = ~form.signed]]

beSignedCommitFirst(form, grade) ==
    IF grade > form.gradeToSign
    THEN [err |-> "GradeTooLow", form |-> [form EXCEPT !.signed = TRUE]]
    ELSE [err |-> "none", form |-> [form EXCEPT !.signed = TRUE]]

beSignedRecords(form, grade) ==
    IF grade > form.gradeToSign
    THEN [err |-> "GradeTooLow", form |-> form]
    ELSE [err |-> "none",
          form |-> [kind |-> form.kind, name |-> form.name, signed |-> TRUE,
                    gradeToSign |-> form.gradeToSign,
                    gradeToExecute |-> form.gradeToExecute,
                    target |-> form.target, signer |-> grade]]

beSignedOutcome(form, grade) ==
    IF grade > form.gradeToSign
    THEN [err |-> "GradeTooLow", form |-> form]
    ELSE [err |-> "none", form |-> [form EXCEPT !.signed = TRUE]]

\* execute(executor): the exception thrown before executeAction() is reached
executeGradeFirst(form, grade) ==
    IF grade > form.gradeToExecute THEN "GradeTooLow"
    ELSE IF ~form.signed THEN "FormNotSigned"
    ELSE "none"

executeStrict(form, grade) ==
    IF ~form.signed THEN "FormNotSigned"
    ELSE IF grade >= form.gradeToExecute THEN "GradeTooLow"
    ELSE "none"

executeCheck(form, grade) ==
    IF ~form.signed THEN "FormNotSigned"
    ELSE IF grade > form.gradeToExecute THEN "GradeTooLow"
    ELSE "none"

(***************************************************************************)
(* The concrete forms.                                                     *)
(***************************************************************************)
ShrubberyFileFixed(target) == "_shrubbery"

ShrubberyFile(target) == target \o "_shrubbery"

\* executeAction(): what it prints and the files it leaves, `ok` being what
\* the environment answers (the file opens; rand() is even)
executeActionSilent(form, ok) ==
    CASE form.kind = "Shrubbery" ->
            IF ok
            THEN [out |-> "planted", files |-> files \cup {ShrubberyFile(form.target)},
                  writes |-> <<ShrubberyFile(form.target)>>]
            ELSE [out |-> "could not create file", files |-> files,
                  writes |-> <<ShrubberyFile(form.target)>>]
      [] form.kind = "Robotomy" ->
            [out |-> IF ok THEN "robotomized" ELSE "none", files |-> files,
             writes |-> <<>>]
      [] form.kind = "Pardon" ->
            [out |-> "pardoned", files |-> files, writes |-> <<>>]

executeAction(form, ok) ==
    CASE form.kind = "Shrubbery" ->
            IF ok
            THEN [out |-> "planted", files |-> files \cup {ShrubberyFile(form.target)},
                  writes |-> <<ShrubberyFile(form.target)>>]
            ELSE [out |-> "could not create file", files |-> files,
                  writes |-> <<ShrubberyFile(form.target)>>]
      [] form.kind = "Robotomy" ->
            [out |-> IF ok THEN "robotomized" ELSE "robotomy failed", files |-> files,
             writes |-> <<>>]
      [] form.kind = "Pardon" ->
            [out |-> "pardoned", files |-> files, writes |-> <<>>]

\* a constructor of a concrete form: AForm(name, s, e), then _target(target)
Construct(f, op, arg, kind, name, gradeToSign, gradeToExecute, target) ==
    /\ forms[f] = NoForm
    /\ LET err == AFormCtor(gradeToSign, gradeToExecute) IN
        /\ forms' = IF err = "none"
                    THEN [forms EXCEPT ![f] =
                            AFormInit(kind, name, gradeToSign, gradeToExecute, target)]
                    ELSE forms
        /\ last' = Call(op, "", f, "", arg, FALSE, err, "none")
    /\ UNCHANGED <<bureaucrats, files, moves, calls, span>>

ShrubberyCreationForm(f, target) ==
    Construct(f, "ShrubberyCreationForm", <<target>>, "Shrubbery",
              "Shrubbery Creation Form", 145, 137, target)

RobotomyRequestForm(f, target) ==
    Construct(f, "RobotomyRequestForm", <<target>>, "Robotomy",
              "Robotomy Request Form", 72, 45, target)

PresidentialPardonForm(f, target) ==
    Construct(f, "PresidentialPardonForm", <<target>>, "Pardon",
              "Presidential Pardon Form", 25, 5, target)

\* Form(name, gradeToSign, gradeToExecute) of ex01: the concrete class that
\* AForm was made from, with the same constructor and no target
Form(f, name, gradeToSign, gradeToExecute) ==
    /\ forms[f] = NoForm
    /\ LET err == AFormCtor(gradeToSign, gradeToExecute) IN
        /\ forms' = IF err = "none"
                    THEN [forms EXCEPT ![f] =
                            AFormInit("Form", name, gradeToSign, gradeToExecute, "")]
                    ELSE forms
        /\ last' = Call("Form", "", f, "", <<gradeToSign, gradeToExecute>>, FALSE,
                        err, "none")
    /\ UNCHANGED <<bureaucrats, files, moves, calls, span>>

\* Intern::makeForm(formName, target): the creator whose name matches builds the
\* form, any other name throws FormNotFound
formNamesShifted == <<"robotomy request", "presidential pardon", "shrubbery creation">>

formNames == <<"shrubbery creation", "robotomy request", "presidential pardon">>

\* the creator makeForm picks: the first i with formName == formNames[i], 0 if none
Creator(formName) ==
    IF \E i \in 1..3 : formName = formNames[i]
    THEN CHOOSE j \in 1..3 :
            /\ formName = formNames[j]
            /\ \A k \in 1..(j - 1) : formName # formNames[k]
    ELSE 0

formCreatorsCached(f, i, formName, target) ==
    LET kind == <<"Shrubbery", "Robotomy", "Pardon">>[i]
        made == {g \in Forms : /\ forms[g] # NoForm
                               /\ forms[g].kind = kind
                               /\ forms[g].target = target}
    IN  /\ forms[f] = NoForm
        /\ forms' = [forms EXCEPT ![f] =
                        IF made # {}
                        THEN forms[CHOOSE g \in made : TRUE]
                        ELSE AFormInit(kind, formName, 150, 150, target)]
        /\ last' = Call("makeForm", "", f, "", <<formName, target>>, FALSE,
                        "none", "none")
        /\ UNCHANGED <<bureaucrats, files, moves, calls, span>>

formCreators(f, i, formName, target) ==
    CASE i = 1 -> Construct(f, "makeForm", <<formName, target>>, "Shrubbery",
                            "Shrubbery Creation Form", 145, 137, target)
      [] i = 2 -> Construct(f, "makeForm", <<formName, target>>, "Robotomy",
                            "Robotomy Request Form", 72, 45, target)
      [] i = 3 -> Construct(f, "makeForm", <<formName, target>>, "Pardon",
                            "Presidential Pardon Form", 25, 5, target)

makeFormNull(f, formName, target) ==
    IF Creator(formName) # 0
    THEN formCreators(f, Creator(formName), formName, target)
    ELSE /\ forms[f] = NoForm
         /\ last' = Call("makeForm", "", f, "", <<formName, target>>, FALSE,
                         "none", "none")
         /\ UNCHANGED <<bureaucrats, forms, files, moves, calls, span>>

makeForm(f, formName, target) ==
    IF Creator(formName) # 0
    THEN formCreators(f, Creator(formName), formName, target)
    ELSE /\ forms[f] = NoForm
         /\ last' = Call("makeForm", "", f, "", <<formName, target>>, FALSE,
                         "FormNotFound", "none")
         /\ UNCHANGED <<bureaucrats, forms, files, moves, calls, span>>

\* the copy constructor of a concrete form: AForm(other), _target(other._target)
FormCopy(f, other) ==
    /\ forms[f] = NoForm
    /\ forms[other] # NoForm
    /\ forms' = [forms EXCEPT ![f] =
                    [AFormCopy(forms[other]) EXCEPT !.target = forms[other].target]]
    /\ last' = Call("copy", "", f, other, 0, forms[other].signed, "none", "none")
    /\ UNCHANGED <<bureaucrats, files, moves, calls, span>>

\* operator= of a concrete form, both operands of the same class
FormAssign(f, other) ==
    /\ forms[f] # NoForm
    /\ forms[other] # NoForm
    /\ forms[f].kind = forms[other].kind
    /\ forms' = IF f # other
                THEN [forms EXCEPT ![f] =
                        [AFormAssign(forms[f], forms[other])
                            EXCEPT !.target = forms[other].target]]
                ELSE forms
    /\ last' = Call("operator=", "", f, other, 0, forms[f].signed, "none", "none")
    /\ UNCHANGED <<bureaucrats, files, moves, calls, span>>

FormDtor(f) ==
    /\ forms[f] # NoForm
    /\ forms' = [forms EXCEPT ![f] = NoForm]
    /\ last' = Call("~AForm", "", f, "", 0, FALSE, "none", "none")
    /\ UNCHANGED <<bureaucrats, files, moves, calls, span>>

beSignedAll(f, b) ==
    /\ forms[f] # NoForm
    /\ bureaucrats[b] # NoBureaucrat
    /\ LET r == beSignedOutcome(forms[f], bureaucrats[b].grade) IN
        /\ forms' = [g \in Forms |->
                        IF forms[g] # NoForm /\ r.err = "none"
                        THEN [forms[g] EXCEPT !.signed = TRUE]
                        ELSE forms[g]]
        /\ last' = Call("beSigned", b, f, "", bureaucrats[b].grade, forms[f].signed,
                        r.err, "none")
    /\ UNCHANGED <<bureaucrats, files, moves, calls, span>>

beSigned(f, b) ==
    /\ forms[f] # NoForm
    /\ bureaucrats[b] # NoBureaucrat
    /\ LET r == beSignedOutcome(forms[f], bureaucrats[b].grade) IN
        /\ forms' = [forms EXCEPT ![f] = r.form]
        /\ last' = Call("beSigned", b, f, "", bureaucrats[b].grade, forms[f].signed,
                        r.err, "none")
    /\ UNCHANGED <<bureaucrats, files, moves, calls, span>>

executeOnce(f, b) ==
    /\ forms[f] # NoForm
    /\ bureaucrats[b] # NoBureaucrat
    /\ LET err == executeCheck(forms[f], bureaucrats[b].grade) IN
        IF err # "none"
        THEN /\ last' = Call("execute", b, f, "", bureaucrats[b].grade, forms[f].signed,
                             err, "none")
             /\ UNCHANGED <<files, forms>>
        ELSE \E ok \in BOOLEAN :
                LET a == executeAction(forms[f], ok) IN
                    /\ files' = a.files
                    /\ forms' = [forms EXCEPT ![f].signed = FALSE]
                    /\ last' = [Call("execute", b, f, "", bureaucrats[b].grade,
                                     forms[f].signed, "none", a.out)
                                    EXCEPT !.acts = 1, !.writes = a.writes]
    /\ UNCHANGED <<bureaucrats, moves, calls, span>>

execute(f, b) ==
    /\ forms[f] # NoForm
    /\ bureaucrats[b] # NoBureaucrat
    /\ LET err == executeCheck(forms[f], bureaucrats[b].grade) IN
        IF err # "none"
        THEN /\ last' = Call("execute", b, f, "", bureaucrats[b].grade, forms[f].signed,
                             err, "none")
             /\ UNCHANGED files
        ELSE \E ok \in BOOLEAN :
                LET a == executeAction(forms[f], ok) IN
                    /\ files' = a.files
                    /\ last' = [Call("execute", b, f, "", bureaucrats[b].grade,
                                     forms[f].signed, "none", a.out)
                                    EXCEPT !.acts = 1, !.writes = a.writes]
    /\ UNCHANGED <<bureaucrats, forms, moves, calls, span>>

\* executeAction() called on the form itself: AForm.hpp declares it public,
\* so a caller reaches it through any AForm reference, with no bureaucrat
executeActionCall(f) ==
    /\ forms[f] # NoForm
    /\ \E ok \in BOOLEAN :
        LET a == executeAction(forms[f], ok) IN
            /\ files' = a.files
            /\ last' = [Call("executeAction", "", f, "", 0, forms[f].signed,
                             "none", a.out)
                            EXCEPT !.acts = 1, !.writes = a.writes]
    /\ UNCHANGED <<bureaucrats, forms, moves, calls, span>>

(***************************************************************************)
(* Bureaucrat::signForm and Bureaucrat::executeForm, declared in           *)
(* Bureaucrat.hpp: section 4.1 of the specification has them forward to    *)
(* beSigned and execute and hand the exception on to the caller.           *)
(***************************************************************************)
Swallowed(err) == "none"

Propagated(err) == err

signForm(b, f) ==
    /\ bureaucrats[b] # NoBureaucrat
    /\ forms[f] # NoForm
    /\ LET r == beSignedOutcome(forms[f], bureaucrats[b].grade) IN
        /\ forms' = [forms EXCEPT ![f] = r.form]
        /\ last' = Call("signForm", b, f, "", bureaucrats[b].grade, forms[f].signed,
                        Propagated(r.err), "none")
    /\ UNCHANGED <<bureaucrats, files, moves, calls, span>>

executeForm(b, f) ==
    /\ bureaucrats[b] # NoBureaucrat
    /\ forms[f] # NoForm
    /\ LET err == executeCheck(forms[f], bureaucrats[b].grade) IN
        IF err # "none"
        THEN /\ last' = Call("executeForm", b, f, "", bureaucrats[b].grade,
                             forms[f].signed, Propagated(err), "none")
             /\ UNCHANGED files
        ELSE \E ok \in BOOLEAN :
                LET a == executeAction(forms[f], ok) IN
                    /\ files' = a.files
                    /\ last' = [Call("executeForm", b, f, "", bureaucrats[b].grade,
                                     forms[f].signed, "none", a.out)
                                    EXCEPT !.acts = 1, !.writes = a.writes]
    /\ UNCHANGED <<bureaucrats, forms, moves, calls, span>>

(***************************************************************************)
(* beSigned and execute statement by statement, for bureaucrats that are   *)
(* inside their calls at the same time.  Each bureaucrat runs its calls    *)
(* one after the other; calls[b].log keeps what each call returned.  The   *)
(* code takes no lock: _signed is read once by execute and written once by *)
(* beSigned, and a read that races with the write sees the flag as it was  *)
(* before or as it is after, which is the order the two steps take here.   *)
(***************************************************************************)
Returned(b, op, f, err) ==
    [calls EXCEPT ![b] = [pc |-> "idle", f |-> "",
                          log |-> Append(calls[b].log, [op |-> op, f |-> f, err |-> err])]]

\* beSigned, AForm.cpp:68-69: if (bureaucrat.getGrade() > _gradeToSign) throw
beSignedCheck(b, f) ==
    /\ bureaucrats[b] # NoBureaucrat
    /\ forms[f] # NoForm
    /\ calls[b].pc = "idle"
    /\ Len(calls[b].log) < MaxCalls
    /\ IF bureaucrats[b].grade > forms[f].gradeToSign
       THEN /\ calls' = Returned(b, "beSigned", f, "GradeTooLow")
            /\ last' = Call("beSigned", b, f, "", bureaucrats[b].grade, forms[f].signed,
                            "GradeTooLow", "none")
       ELSE /\ calls' = [calls EXCEPT ![b].pc = "write", ![b].f = f]
            /\ UNCHANGED last
    /\ UNCHANGED <<bureaucrats, forms, files, moves, span>>

\* beSigned, AForm.cpp:70: _signed = true
beSignedWrite(b) ==
    /\ calls[b].pc = "write"
    /\ LET f == calls[b].f IN
        /\ forms' = [forms EXCEPT ![f].signed = TRUE]
        /\ calls' = Returned(b, "beSigned", f, "none")
        /\ last' = Call("beSigned", b, f, "", bureaucrats[b].grade, forms[f].signed,
                        "none", "none")
    /\ UNCHANGED <<bureaucrats, files, moves, span>>

\* execute, AForm.cpp:75-76: if (!_signed) throw
executeReadSkipped(b, f) ==
    /\ bureaucrats[b] # NoBureaucrat
    /\ forms[f] # NoForm
    /\ calls[b].pc = "idle"
    /\ Len(calls[b].log) < MaxCalls
    /\ calls' = [calls EXCEPT ![b].pc = "grade", ![b].f = f]
    /\ UNCHANGED <<bureaucrats, forms, files, last, moves, span>>

executeRead(b, f) ==
    /\ bureaucrats[b] # NoBureaucrat
    /\ forms[f] # NoForm
    /\ calls[b].pc = "idle"
    /\ Len(calls[b].log) < MaxCalls
    /\ IF ~forms[f].signed
       THEN /\ calls' = Returned(b, "execute", f, "FormNotSigned")
            /\ last' = Call("execute", b, f, "", bureaucrats[b].grade, FALSE,
                            "FormNotSigned", "none")
       ELSE /\ calls' = [calls EXCEPT ![b].pc = "grade", ![b].f = f]
            /\ UNCHANGED last
    /\ UNCHANGED <<bureaucrats, forms, files, moves, span>>

\* execute, AForm.cpp:77-78: if (executor.getGrade() > _gradeToExecute) throw
executeGrade(b) ==
    /\ calls[b].pc = "grade"
    /\ LET f == calls[b].f IN
        IF bureaucrats[b].grade > forms[f].gradeToExecute
        THEN /\ calls' = Returned(b, "execute", f, "GradeTooLow")
             /\ last' = Call("execute", b, f, "", bureaucrats[b].grade, TRUE,
                             "GradeTooLow", "none")
        ELSE /\ calls' = [calls EXCEPT ![b].pc = "act"]
             /\ UNCHANGED last
    /\ UNCHANGED <<bureaucrats, forms, files, moves, span>>

\* execute, AForm.cpp:79: executeAction()
executeAct(b) ==
    /\ calls[b].pc = "act"
    /\ \E ok \in BOOLEAN :
        LET f == calls[b].f
            a == executeAction(forms[f], ok)
        IN  /\ files' = a.files
            /\ calls' = Returned(b, "execute", f, "none")
            /\ last' = [Call("execute", b, f, "", bureaucrats[b].grade, TRUE,
                             "none", a.out)
                            EXCEPT !.acts = 1, !.writes = a.writes]
    /\ UNCHANGED <<bureaucrats, forms, moves, span>>

(***************************************************************************)
(* Span (cpp08/ex01).  _numbers holds span.numbers and, before them,       *)
(* span.laps blocks of 2^32 zeros: _numbers.size() is a 64-bit size_t,     *)
(* _maxSize and what size() returns are 32-bit unsigned ints.              *)
(***************************************************************************)
SpanCall(op, arg, err, ret) ==
    [Call(op, "", "", "", arg, FALSE, err, "none") EXCEPT !.ret = ret]

\* Span(unsigned int N): _maxSize(N), _numbers empty
Span(N) ==
    /\ ~span.alive
    /\ span' = [alive |-> TRUE, maxSize |-> N, numbers |-> <<>>, laps |-> 0]
    /\ last' = SpanCall("Span", N, "none", 0)
    /\ UNCHANGED <<bureaucrats, forms, files, moves, calls>>

SpanDtor ==
    /\ span.alive
    /\ span' = NoSpan
    /\ last' = SpanCall("~Span", 0, "none", 0)
    /\ UNCHANGED <<bureaucrats, forms, files, moves, calls>>

\* _numbers.size() >= _maxSize, both taken to size_t
isFull(s) == s.laps > 0 \/ Len(s.numbers) >= s.maxSize

\* addNumber(number): throws SpanFullException or push_back
addNumber(number) ==
    /\ span.alive
    /\ IF isFull(span)
       THEN /\ span' = span
            /\ last' = SpanCall("addNumber", number, "SpanFull", 0)
       ELSE /\ span' = [span EXCEPT !.numbers = Append(span.numbers, number)]
            /\ last' = SpanCall("addNumber", number, "none", 0)
    /\ UNCHANGED <<bureaucrats, forms, files, moves, calls>>

\* static_cast<unsigned int>(distance): the distance modulo 2^32
distanceCast(range) == [laps |-> 0, rest |-> Len(range.elems)]

\* _numbers.size() + static_cast<unsigned int>(distance) > _maxSize
rangeTooLong(s, range) ==
    LET d == distanceCast(range) IN
        s.laps + d.laps > 0 \/ Len(s.numbers) + d.rest > s.maxSize

\* addRange(begin, end), begin before end: throws SpanFullException or
\* inserts the range at the end; `mem` is whether the allocation of a range
\* of 2^32 elements or more succeeds (std::bad_alloc if not)
addRange(range) ==
    /\ span.alive
    /\ \E mem \in BOOLEAN :
        IF rangeTooLong(span, range)
        THEN /\ span' = span
             /\ last' = SpanCall("addRange", range, "SpanFull", 0)
        ELSE IF range.laps > 0 /\ ~mem
        THEN /\ span' = span
             /\ last' = SpanCall("addRange", range, "bad_alloc", 0)
        ELSE /\ span' = [span EXCEPT !.numbers = span.numbers \o range.elems,
                                     !.laps = span.laps + range.laps]
             /\ last' = SpanCall("addRange", range, "none", 0)
    /\ UNCHANGED <<bureaucrats, forms, files, moves, calls>>

\* the elements the span functions look at: of 2^32 zeros, two stand for all
stored(s) == (IF s.laps > 0 THEN <<0, 0>> ELSE <<>>) \o s.numbers

\* a - b in int: whether it leaves the range of int, and the 32 low bits of
\* the difference read as an int if it does
Overflows(a, b) ==
    IF b < 0 THEN a > INT_MAX + b ELSE a < INT_MIN + b

Wrapped(a, b) ==
    IF ~Overflows(a, b) THEN a - b
    ELSE IF b < 0 THEN ((((a - INT_MAX) - 1) - b) - INT_MAX) - 1
    ELSE ((((a + INT_MAX) + 1) - b) + INT_MAX) + 1

\* std::sort on the copy
RECURSIVE Insert(_, _)
Insert(x, s) ==
    IF s = <<>> THEN <<x>>
    ELSE IF x <= Head(s) THEN <<x>> \o s
    ELSE <<Head(s)>> \o Insert(x, Tail(s))

RECURSIVE sort(_)
sort(s) == IF s = <<>> THEN <<>> ELSE Insert(Head(s), sort(Tail(s)))

\* the loop of shortestSpan from index i on, minSpan being the least so far
RECURSIVE minSpanLoop(_, _, _)
minSpanLoop(sorted, i, minSpan) ==
    IF i > Len(sorted) THEN minSpan
    ELSE LET d == Wrapped(sorted[i], sorted[i - 1]) IN
            minSpanLoop(sorted, i + 1, IF d < minSpan THEN d ELSE minSpan)

\* std::min_element and std::max_element
min_element(s) == CHOOSE x \in {s[i] : i \in 1..Len(s)} : \A j \in 1..Len(s) : x <= s[j]
max_element(s) == CHOOSE x \in {s[i] : i \in 1..Len(s)} : \A j \in 1..Len(s) : x >= s[j]

\* shortestSpan(): throws SpanTooSmallException, or the least difference of
\* neighbours in the sorted copy.  A difference that leaves the range of int
\* is undefined behaviour: the build either wraps it or traps on it.
shortestSpan ==
    /\ span.alive
    /\ \E trap \in BOOLEAN :
        LET sorted == sort(stored(span)) IN
        IF Len(stored(span)) < 2
        THEN last' = SpanCall("shortestSpan", 0, "SpanTooSmall", 0)
        ELSE IF trap /\ \E i \in 2..Len(sorted) : Overflows(sorted[i], sorted[i - 1])
        THEN last' = SpanCall("shortestSpan", 0, "overflow trap", 0)
        ELSE last' = SpanCall("shortestSpan", 0, "none", minSpanLoop(sorted, 2, INT_MAX))
    /\ UNCHANGED <<bureaucrats, forms, files, moves, calls, span>>

\* longestSpan(): throws SpanTooSmallException, or *maxIt - *minIt
longestSpan ==
    /\ span.alive
    /\ \E trap \in BOOLEAN :
        LET lo == min_element(stored(span))
            hi == max_element(stored(span))
        IN  IF Len(stored(span)) < 2
            THEN last' = SpanCall("longestSpan", 0, "SpanTooSmall", 0)
            ELSE IF trap /\ Overflows(hi, lo)
            THEN last' = SpanCall("longestSpan", 0, "overflow trap", 0)
            ELSE last' = SpanCall("longestSpan", 0, "none", Wrapped(hi, lo))
    /\ UNCHANGED <<bureaucrats, forms, files, moves, calls, span>>

Init ==
    /\ bureaucrats = [b \in Bureaucrats |-> NoBureaucrat]
    /\ forms = [f \in Forms |-> NoForm]
    /\ files = {}
    /\ last = NoCall
    /\ moves = 0
    /\ calls = [b \in Bureaucrats |-> Idle]
    /\ span = NoSpan

Next ==
    \/ \E b \in Bureaucrats, g \in GradeInputs : Bureaucrat(b, g)
    \/ \E b, o \in Bureaucrats : BureaucratAssign(b, o)
    \/ \E b \in Bureaucrats : BureaucratDtor(b)
    \/ \E b \in Bureaucrats : incrementGrade(b)
    \/ \E b \in Bureaucrats : decrementGrade(b)
    \/ \E f \in Forms, t \in Targets : ShrubberyCreationForm(f, t)
    \/ \E f \in Forms, t \in Targets : RobotomyRequestForm(f, t)
    \/ \E f \in Forms, t \in Targets : PresidentialPardonForm(f, t)
    \/ \E f \in Forms, n \in FormNameInputs, t \in Targets : makeForm(f, n, t)
    \/ \E f, o \in Forms : FormCopy(f, o)
    \/ \E f, o \in Forms : FormAssign(f, o)
    \/ \E f \in Forms : FormDtor(f)
    \/ \E f \in Forms, b \in Bureaucrats : beSigned(f, b)
    \/ \E f \in Forms, b \in Bureaucrats : execute(f, b)

Spec == Init /\ [][Next]_vars

(***************************************************************************)
(* The program of ex01: bureaucrats and the concrete Form, whose grades    *)
(* the caller chooses.  It has no execute.                                 *)
(***************************************************************************)
NextForm ==
    \/ \E b \in Bureaucrats, g \in GradeInputs : Bureaucrat(b, g)
    \/ \E b \in Bureaucrats : BureaucratDtor(b)
    \/ \E f \in Forms, s, e \in ThresholdInputs : Form(f, f, s, e)
    \/ \E f, o \in Forms : FormCopy(f, o)
    \/ \E f, o \in Forms : FormAssign(f, o)
    \/ \E f \in Forms : FormDtor(f)
    \/ \E f \in Forms, b \in Bureaucrats : beSigned(f, b)

SpecForm == Init /\ [][NextForm]_vars

(***************************************************************************)
(* One try block of ex02/main.cpp: bureaucrats and forms are constructed,  *)
(* the grades are moved, the forms are signed and executed; every object   *)
(* lives to the end of the block.                                          *)
(***************************************************************************)
NextBlock ==
    \/ \E b \in Bureaucrats, g \in GradeInputs : Bureaucrat(b, g)
    \/ \E b \in Bureaucrats : incrementGrade(b)
    \/ \E b \in Bureaucrats : decrementGrade(b)
    \/ \E f \in Forms, t \in Targets : ShrubberyCreationForm(f, t)
    \/ \E f \in Forms, t \in Targets : RobotomyRequestForm(f, t)
    \/ \E f \in Forms, t \in Targets : PresidentialPardonForm(f, t)
    \/ \E f \in Forms, b \in Bureaucrats : beSigned(f, b)
    \/ \E f \in Forms, b \in Bureaucrats : execute(f, b)

SpecBlock == Init /\ [][NextBlock]_vars

(***************************************************************************)
(* A caller of the public interface of AForm.hpp: the block above, and     *)
(* executeAction called directly.                                          *)
(***************************************************************************)
NextInterface ==
    \/ \E b \in Bureaucrats, g \in GradeInputs : Bureaucrat(b, g)
    \/ \E f \in Forms, t \in Targets : ShrubberyCreationForm(f, t)
    \/ \E f \in Forms, t \in Targets : RobotomyRequestForm(f, t)
    \/ \E f \in Forms, t \in Targets : PresidentialPardonForm(f, t)
    \/ \E f \in Forms, b \in Bureaucrats : beSigned(f, b)
    \/ \E f \in Forms, b \in Bureaucrats : execute(f, b)
    \/ \E f \in Forms : executeActionCall(f)

SpecInterface == Init /\ [][NextInterface]_vars

(***************************************************************************)
(* The same block with its bureaucrats working at the same time, their     *)
(* calls of beSigned and execute interleaved statement by statement.       *)
(***************************************************************************)
NextConcurrent ==
    \/ \E b \in Bureaucrats, g \in GradeInputs : Bureaucrat(b, g)
    \/ \E f \in Forms, t \in Targets : PresidentialPardonForm(f, t)
    \/ \E b \in Bureaucrats, f \in Forms : beSignedCheck(b, f)
    \/ \E b \in Bureaucrats : beSignedWrite(b)
    \/ \E b \in Bureaucrats, f \in Forms : executeRead(b, f)
    \/ \E b \in Bureaucrats : executeGrade(b)
    \/ \E b \in Bureaucrats : executeAct(b)

SpecConcurrent == Init /\ [][NextConcurrent]_vars

(***************************************************************************)
(* The program of cpp08/ex01: one Span, filled and asked for its spans.    *)
(***************************************************************************)
NextSpan ==
    \/ \E N \in SpanSizes : Span(N)
    \/ SpanDtor
    \/ \E n \in NumberInputs : addNumber(n)
    \/ \E r \in RangeInputs : addRange(r)
    \/ shortestSpan
    \/ longestSpan

SpecSpan == Init /\ [][NextSpan]_vars

(***************************************************************************)
(* The program of ex03: an Intern makes the forms, bureaucrats sign and    *)
(* execute them through signForm and executeForm, the caller deletes them. *)
(***************************************************************************)
NextIntern ==
    \/ \E b \in Bureaucrats, g \in GradeInputs : Bureaucrat(b, g)
    \/ \E b \in Bureaucrats : BureaucratDtor(b)
    \/ \E f \in Forms, n \in InternNameInputs, t \in InternTargets : makeForm(f, n, t)
    \/ \E f \in Forms, t \in InternTargets : ShrubberyCreationForm(f, t)
    \/ \E f \in Forms, t \in InternTargets : RobotomyRequestForm(f, t)
    \/ \E f \in Forms, t \in InternTargets : PresidentialPardonForm(f, t)
    \/ \E f \in Forms : FormDtor(f)
    \/ \E b \in Bureaucrats, f \in Forms : signForm(b, f)
    \/ \E b \in Bureaucrats, f \in Forms : executeForm(b, f)

SpecIntern == Init /\ [][NextIntern]_vars

(***************************************************************************)
(* Properties.                                                             *)
(***************************************************************************)
Alive(b) == bureaucrats[b] # NoBureaucrat
Exists(f) == forms[f] # NoForm
AssignOps == {"operator="}

\* C1: constructing a Bureaucrat with grade g succeeds iff 1 <= g <= 150; it
\* throws GradeTooHigh when g < 1 and GradeTooLow when g > 150, and no
\* Bureaucrat exists after a construction that threw.
C1_ConstructorContract ==
    last.op = "Bureaucrat" =>
        /\ (last.err = "none") <=> (1 <= last.arg /\ last.arg <= 150)
        /\ last.arg < 1 => last.err = "GradeTooHigh"
        /\ last.arg > 150 => last.err = "GradeTooLow"
        /\ last.err # "none" => ~Alive(last.b)
        /\ last.err = "none" => /\ Alive(last.b)
                                /\ bureaucrats[last.b].grade = last.arg

C1_Witness ==
    /\ last.op = "Bureaucrat"
    /\ last.arg = 151
    /\ last.err = "GradeTooLow"
    /\ ~Alive(last.b)

\* C2: in every reachable state, whatever calls were made and whether they
\* threw, every Bureaucrat alive has 1 <= grade <= 150.
C2_GradeInRange ==
    \A b \in Bureaucrats :
        Alive(b) => (1 <= bureaucrats[b].grade /\ bureaucrats[b].grade <= 150)

C2_Witness ==
    /\ last.op = "decrementGrade"
    /\ last.err = "GradeTooLow"
    /\ bureaucrats[last.b].grade = 150
    /\ \E f \in Forms : Exists(f) /\ forms[f].signed

\* C3: incrementGrade at grade 1 throws GradeTooHigh, decrementGrade at grade
\* 150 throws GradeTooLow, and the grade is then what it was.
C3_BoundaryThrows ==
    /\ (last.op = "incrementGrade" /\ last.arg = 1) =>
            (last.err = "GradeTooHigh" /\ bureaucrats[last.b].grade = 1)
    /\ (last.op = "decrementGrade" /\ last.arg = 150) =>
            (last.err = "GradeTooLow" /\ bureaucrats[last.b].grade = 150)

C3_Witness ==
    /\ last.op = "incrementGrade"
    /\ last.arg = 1
    /\ last.err = "GradeTooHigh"
    /\ bureaucrats[last.b].grade = 1

\* C4: incrementGrade at a grade g > 1 succeeds and leaves g - 1,
\* decrementGrade at a grade g < 150 succeeds and leaves g + 1, and a
\* decrementGrade that follows a successful incrementGrade of the same
\* Bureaucrat restores the grade the incrementGrade started from.
C4_Step ==
    /\ (last'.op = "incrementGrade" /\ last'.arg > 1) =>
            (last'.err = "none" /\ bureaucrats'[last'.b].grade = last'.arg - 1)
    /\ (last'.op = "decrementGrade" /\ last'.arg < 150) =>
            (last'.err = "none" /\ bureaucrats'[last'.b].grade = last'.arg + 1)
    /\ (/\ last.op = "incrementGrade" /\ last.err = "none"
        /\ last'.op = "decrementGrade" /\ last'.b = last.b) =>
            (last'.err = "none" /\ bureaucrats'[last.b].grade = last.arg)

C4_GradeSteps == [][C4_Step]_vars

C4_Witness ==
    /\ last.op = "decrementGrade"
    /\ last.arg = 24
    /\ last.err = "none"
    /\ bureaucrats[last.b].grade = 25

\* C5: beSigned succeeds iff the bureaucrat's grade is at most the form's
\* gradeToSign, that grade itself included; after a success the form is
\* signed, and a failure is GradeTooLow.
C5_SignContract ==
    last.op = "beSigned" =>
        /\ (last.err = "none") <=> (last.arg <= forms[last.f].gradeToSign)
        /\ last.err = "none" => forms[last.f].signed
        /\ last.err # "none" => last.err = "GradeTooLow"

C5_Witness ==
    /\ last.op = "beSigned"
    /\ last.arg = forms[last.f].gradeToSign
    /\ last.err = "none"
    /\ forms[last.f].signed

\* C6: beSigned on a form that is already signed, by a bureaucrat whose grade
\* is at most gradeToSign, throws nothing and leaves the form exactly as the
\* first call left it: signed, with the same grades.
C6_Step ==
    \A f \in Forms, b \in Bureaucrats :
        (/\ last'.op = "beSigned" /\ last'.f = f /\ last'.b = b
         /\ Exists(f) /\ Alive(b)
         /\ forms[f].signed
         /\ bureaucrats[b].grade <= forms[f].gradeToSign) =>
            (/\ last'.err = "none"
             /\ forms'[f] = forms[f]
             /\ forms'[f].signed)

C6_SignIdempotent == [][C6_Step]_vars

C6_Witness ==
    /\ last.op = "beSigned"
    /\ last.pre
    /\ last.arg <= forms[last.f].gradeToSign
    /\ last.err = "none"
    /\ forms[last.f].signed

\* C7: beSigned checks the grade on every call: on a form that is already
\* signed, a bureaucrat whose grade is above gradeToSign gets GradeTooLow, and
\* the form is still signed after that failure.
C7_SignedStillChecked ==
    (/\ last.op = "beSigned"
     /\ last.pre
     /\ last.arg > forms[last.f].gradeToSign) =>
        (last.err = "GradeTooLow" /\ forms[last.f].signed)

C7_Witness ==
    /\ last.op = "beSigned"
    /\ last.pre
    /\ last.arg > forms[last.f].gradeToSign
    /\ last.err = "GradeTooLow"
    /\ forms[last.f].signed

\* C8, as claimed: once a form is signed, no call on it, a copy assignment
\* from another form included, makes it unsigned again.
C8_Original_Step ==
    \A f \in Forms :
        (Exists(f) /\ forms[f].signed /\ forms'[f] # NoForm) => forms'[f].signed

C8_Original == [][C8_Original_Step]_vars

\* C8, amended: once a form is signed, beSigned and execute, whether they
\* succeed or throw, never make it unsigned; the one call that does is a copy
\* assignment from an unsigned form, which copies the source's _signed.
C8_Step ==
    \A f \in Forms :
        (Exists(f) /\ forms[f].signed /\ forms'[f] # NoForm /\ ~forms'[f].signed) =>
            (/\ last'.op \in AssignOps
             /\ last'.f = f
             /\ Exists(last'.o)
             /\ ~forms[last'.o].signed)

C8_SignedUntilAssigned == [][C8_Step]_vars

C8_Witness ==
    /\ last.op = "execute"
    /\ last.pre
    /\ last.err = "GradeTooLow"
    /\ forms[last.f].signed

\* C9, as claimed: every form starts unsigned, and the only call that turns
\* _signed from false to true is a successful beSigned on that form.
C9_Original_Step ==
    \A f \in Forms :
        /\ (~Exists(f) /\ forms'[f] # NoForm) => ~forms'[f].signed
        /\ (Exists(f) /\ ~forms[f].signed /\ forms'[f] # NoForm /\ forms'[f].signed) =>
                (last'.op = "beSigned" /\ last'.f = f /\ last'.err = "none")

C9_Original == [][C9_Original_Step]_vars

\* C9, amended: a form built by a constructor other than the copy constructor,
\* or by Intern::makeForm, starts unsigned, and a copy-constructed form starts
\* with its source's _signed; _signed turns from false to true only by a successful
\* beSigned on that form or by a copy assignment from a signed form; execute
\* never sets it.
C9_Step ==
    \A f \in Forms :
        /\ (~Exists(f) /\ forms'[f] # NoForm) =>
                \/ ~forms'[f].signed
                \/ /\ last'.op = "copy" /\ last'.f = f
                   /\ Exists(last'.o) /\ forms[last'.o].signed
        /\ (~Exists(f) /\ forms'[f] # NoForm /\ last'.op = "copy") =>
                forms'[f].signed = forms[last'.o].signed
        /\ (Exists(f) /\ ~forms[f].signed /\ forms'[f] # NoForm /\ forms'[f].signed) =>
                \/ last'.op = "beSigned" /\ last'.f = f /\ last'.err = "none"
                \/ /\ last'.op \in AssignOps /\ last'.f = f
                   /\ Exists(last'.o) /\ forms[last'.o].signed

C9_SignedOnlyBySignOrCopy == [][C9_Step]_vars

C9_Witness ==
    /\ last.op = "beSigned"
    /\ ~last.pre
    /\ last.err = "none"
    /\ forms[last.f].signed

\* C10: execute on an unsigned form throws FormNotSigned whatever the
\* executor's grade, a grade above gradeToExecute included: GradeTooLow is
\* never what an unsigned form reports.
C10_UnsignedNotExecuted ==
    (last.op = "execute" /\ ~last.pre) =>
        (last.err = "FormNotSigned" /\ last.out = "none")

C10_Witness ==
    /\ last.op = "execute"
    /\ ~last.pre
    /\ last.arg > forms[last.f].gradeToExecute
    /\ last.err = "FormNotSigned"

\* C11: execute on a signed form throws GradeTooLow iff the executor's grade
\* is above gradeToExecute; at a grade of at most gradeToExecute, that grade
\* itself included, it calls executeAction() exactly once, throws nothing and
\* what the action reports is what the call reports.
C11_SignedExecute ==
    (last.op = "execute" /\ last.pre) =>
        /\ (last.err = "GradeTooLow") <=> (last.arg > forms[last.f].gradeToExecute)
        /\ last.arg <= forms[last.f].gradeToExecute =>
                (last.err = "none" /\ last.acts = 1 /\ last.out # "none")
        /\ last.err # "none" => (last.acts = 0 /\ last.out = "none")

C11_Witness ==
    /\ last.op = "execute"
    /\ last.pre
    /\ last.arg = forms[last.f].gradeToExecute
    /\ last.err = "none"
    /\ last.acts = 1

\* C12: constructing a form with grades (s, e) succeeds iff both lie in
\* 1..150; it throws GradeTooHigh when a grade is below 1 and GradeTooLow when
\* a grade is above 150 (when one is below 1 and the other above 150: one of
\* the two), no form exists after a constructor that threw, and every form
\* that exists has both grades in 1..150.
C12_FormConstructor ==
    /\ last.op = "Form" =>
            LET s == last.arg[1]
                e == last.arg[2]
                low == s < 1 \/ e < 1
                high == s > 150 \/ e > 150
            IN  /\ (last.err = "none") <=> (~low /\ ~high)
                /\ last.err \in {"none", "GradeTooHigh", "GradeTooLow"}
                /\ (low /\ ~high) => last.err = "GradeTooHigh"
                /\ (high /\ ~low) => last.err = "GradeTooLow"
                /\ last.err # "none" => ~Exists(last.f)
                /\ last.err = "none" =>
                        /\ Exists(last.f)
                        /\ forms[last.f].gradeToSign = s
                        /\ forms[last.f].gradeToExecute = e
    /\ \A f \in Forms :
            Exists(f) => /\ 1 <= forms[f].gradeToSign /\ forms[f].gradeToSign <= 150
                         /\ 1 <= forms[f].gradeToExecute /\ forms[f].gradeToExecute <= 150

C12_Witness ==
    /\ last.op = "Form"
    /\ last.arg = <<50, 151>>
    /\ last.err = "GradeTooLow"
    /\ ~Exists(last.f)

\* C13: a form's name, gradeToSign and gradeToExecute never change once it is
\* constructed: beSigned and a copy assignment from a form with other grades
\* leave them as they were, and an assignment alters at most _signed (and the
\* target of a concrete form).
C13_Step ==
    \A f \in Forms :
        (Exists(f) /\ forms'[f] # NoForm) =>
            /\ forms'[f].name = forms[f].name
            /\ forms'[f].gradeToSign = forms[f].gradeToSign
            /\ forms'[f].gradeToExecute = forms[f].gradeToExecute
            /\ forms'[f] = [forms[f] EXCEPT !.signed = forms'[f].signed,
                                            !.target = forms'[f].target]

C13_ConstMembers == [][C13_Step]_vars

C13_Witness ==
    /\ last.op = "operator="
    /\ last.f # last.o
    /\ forms[last.f].name # forms[last.o].name
    /\ forms[last.f].gradeToSign # forms[last.o].gradeToSign
    /\ forms[last.f].gradeToExecute # forms[last.o].gradeToExecute
    /\ ~last.pre
    /\ forms[last.f].signed

\* C14: makeForm with one of the keys "shrubbery creation", "robotomy request"
\* and "presidential pardon" returns a newly constructed, unsigned form of the
\* matching kind with the given target and the grades (145, 137), (72, 45) and
\* (25, 5), the grades a directly constructed form of that kind has; no other
\* form changes.
C14_Expected(n, t) ==
    CASE n = "shrubbery creation" ->
            [kind |-> "Shrubbery", name |-> "Shrubbery Creation Form", signed |-> FALSE,
             gradeToSign |-> 145, gradeToExecute |-> 137, target |-> t]
      [] n = "robotomy request" ->
            [kind |-> "Robotomy", name |-> "Robotomy Request Form", signed |-> FALSE,
             gradeToSign |-> 72, gradeToExecute |-> 45, target |-> t]
      [] n = "presidential pardon" ->
            [kind |-> "Pardon", name |-> "Presidential Pardon Form", signed |-> FALSE,
             gradeToSign |-> 25, gradeToExecute |-> 5, target |-> t]

C14_Step ==
    (/\ last'.op = "makeForm"
     /\ last'.arg[1] \in {"shrubbery creation", "robotomy request", "presidential pardon"})
    => LET f == last'.f IN
        /\ last'.err = "none"
        /\ forms[f] = NoForm
        /\ forms'[f] = C14_Expected(last'.arg[1], last'.arg[2])
        /\ \A g \in Forms \ {f} : forms'[g] = forms[g]
        /\ \A g \in Forms :
                (forms'[g] # NoForm /\ forms'[g].kind = forms'[f].kind) =>
                    /\ forms'[g].name = forms'[f].name
                    /\ forms'[g].gradeToSign = forms'[f].gradeToSign
                    /\ forms'[g].gradeToExecute = forms'[f].gradeToExecute

C14_MakeFormValid == [][C14_Step]_vars

C14_Witness ==
    /\ last.op = "makeForm"
    /\ last.arg = <<"robotomy request", "home">>
    /\ last.err = "none"
    /\ forms[last.f].kind = "Robotomy"
    /\ forms[last.f].target = "home"
    /\ ~forms[last.f].signed
    /\ \E g \in Forms \ {last.f} : Exists(g) /\ forms[g].kind = "Robotomy"

\* C15: makeForm throws FormNotFound exactly when the key is not one of the
\* three keys, compared as it stands (another case, a trailing blank, a
\* prefix and the empty string are all unknown); it then creates no form and
\* changes none.  The target, the empty one included, has no part in it.
C15_Step ==
    last'.op = "makeForm" =>
        LET n == last'.arg[1] IN
        /\ (last'.err = "FormNotFound") <=>
                (n \notin {"shrubbery creation", "robotomy request", "presidential pardon"})
        /\ last'.err \in {"none", "FormNotFound"}
        /\ last'.err = "FormNotFound" => (forms' = forms /\ forms'[last'.f] = NoForm)
        /\ last'.err = "none" => forms'[last'.f] # NoForm

C15_MakeFormUnknown == [][C15_Step]_vars

C15_Witness ==
    /\ last.op = "makeForm"
    /\ last.arg = <<"Robotomy Request", "">>
    /\ last.err = "FormNotFound"
    /\ ~Exists(last.f)

C17_Step ==
    last'.op \in {"beSigned", "execute"} =>
        /\ bureaucrats' = bureaucrats
        /\ \A b \in Bureaucrats :
                Alive(b) => bureaucrats'[b].grade = bureaucrats[b].grade
        /\ last'.op = "execute" =>
                /\ forms'[last'.f].signed = forms[last'.f].signed
                /\ forms' = forms
        /\ \A g \in Forms \ {last'.f} : forms'[g] = forms[g]

C17_Frame == [][C17_Step]_vars

C17_Witness ==
    /\ last.op = "beSigned"
    /\ last.err = "none"
    /\ ~last.pre
    /\ forms[last.f].signed
    /\ \E g \in Forms \ {last.f} : Exists(g) /\ ~forms[g].signed

\* C18: execute of a signed RobotomyRequestForm by a bureaucrat of grade 45
\* or better never throws: whatever rand() gives, it reports exactly one of
\* the two outcomes, and the failed robotomy is an outcome, not an exception.
C18_RobotomyOutcome ==
    (/\ last.op = "execute"
     /\ forms[last.f].kind = "Robotomy"
     /\ last.pre
     /\ last.arg <= 45)
    => /\ last.err = "none"
       /\ last.acts = 1
       /\ last.out \in {"robotomized", "robotomy failed"}

C18_Witness ==
    /\ last.op = "execute"
    /\ forms[last.f].kind = "Robotomy"
    /\ last.pre
    /\ last.arg <= 45
    /\ last.err = "none"
    /\ last.out = "robotomy failed"

\* C19: an execute of a ShrubberyCreationForm that does not throw opens
\* exactly one file, named <target>_shrubbery; an execute that throws
\* (FormNotSigned or GradeTooLow) opens none and leaves the files as they were.
C19_Step ==
    (last'.op = "execute" /\ forms[last'.f].kind = "Shrubbery") =>
        /\ last'.err = "none" =>
                /\ last'.writes = <<forms[last'.f].target \o "_shrubbery">>
                /\ files' \subseteq files \cup {forms[last'.f].target \o "_shrubbery"}
        /\ last'.err # "none" =>
                /\ last'.err \in {"FormNotSigned", "GradeTooLow"}
                /\ last'.writes = <<>>
                /\ files' = files

C19_ShrubberyWrites == [][C19_Step]_vars

C19_Witness ==
    /\ last.op = "execute"
    /\ forms[last.f].kind = "Shrubbery"
    /\ last.err = "none"
    /\ last.out = "planted"
    /\ last.writes = <<"home_shrubbery">>
    /\ "home_shrubbery" \in files

\* C20: when the file cannot be created, execute of a signed
\* ShrubberyCreationForm by a bureaucrat of grade 137 or better fails: it
\* returns normally only if the shrubbery was written.
C20_WriteFailurePropagated ==
    (/\ last.op = "execute"
     /\ forms[last.f].kind = "Shrubbery"
     /\ last.pre
     /\ last.arg <= 137
     /\ last.err = "none")
    => /\ last.out = "planted"
       /\ (forms[last.f].target \o "_shrubbery") \in files

\* C21: execute is decided anew at every call, by the form's _signed and the
\* grade the bureaucrat has at that call, and a successful execute leaves the
\* form signed, so it can be executed again: a bureaucrat who executed at
\* grade 137 fails with GradeTooLow once decremented to 138, and succeeds
\* again once incremented back.
C21_Step ==
    last'.op = "execute" =>
        LET f == last'.f
            grade == bureaucrats[last'.b].grade
        IN  /\ last'.arg = grade
            /\ forms[f].signed =>
                    /\ (last'.err = "none") <=> (grade <= forms[f].gradeToExecute)
                    /\ (last'.err = "GradeTooLow") <=> (grade > forms[f].gradeToExecute)
            /\ last'.err = "none" =>
                    /\ forms'[f].signed
                    /\ forms' = forms
                    /\ bureaucrats' = bureaucrats

C21_ExecuteRepeatable == [][C21_Step]_vars

\* alice, the only bureaucrat of the block, planted the shrubbery of the only
\* form, was decremented from 137 to 138 and now fails
C21_Witness ==
    /\ last.op = "execute"
    /\ last.b = "alice"
    /\ last.f = "f1"
    /\ last.pre
    /\ last.arg = 138
    /\ last.err = "GradeTooLow"
    /\ forms["f1"].kind = "Shrubbery"
    /\ "home_shrubbery" \in files
    /\ ~Alive("bob")
    /\ ~Exists("f2")
    /\ moves = 1

\* C22: a beSigned that throws GradeTooLow changes nothing; the form it was
\* tried on, if unsigned, is still unsigned, and an execute that follows on
\* that form throws FormNotSigned whatever the executor's grade, without
\* running the action.
C22_Step ==
    /\ (last'.op = "beSigned" /\ last'.err # "none") =>
            /\ last'.err = "GradeTooLow"
            /\ forms' = forms
            /\ forms'[last'.f].signed = last'.pre
    /\ (/\ last.op = "beSigned"
        /\ last.err = "GradeTooLow"
        /\ ~last.pre
        /\ last'.op = "execute"
        /\ last'.f = last.f)
       => /\ last'.err = "FormNotSigned"
          /\ last'.acts = 0
          /\ forms' = forms

C22_FailedSignNoEffect == [][C22_Step]_vars

C22_Witness ==
    /\ last.op = "beSigned"
    /\ last.err = "GradeTooLow"
    /\ ~last.pre
    /\ ~forms[last.f].signed
    /\ \E b \in Bureaucrats \ {last.b} :
            Alive(b) /\ bureaucrats[b].grade <= forms[last.f].gradeToExecute

\* C23: with several bureaucrats inside beSigned and execute on the same form
\* at once, what each call on that form returned and the form's _signed are
\* those of the same calls made one after the other in some order that keeps
\* each bureaucrat's own order; no execute has run its action on a form
\* unless a beSigned on that form had returned without throwing.
C23_Fits(flag, b, c) ==
    LET grade == bureaucrats[b].grade
        form == forms[c.f]
    IN  IF c.op = "beSigned"
        THEN c.err = (IF grade > form.gradeToSign THEN "GradeTooLow" ELSE "none")
        ELSE c.err = (IF ~flag THEN "FormNotSigned"
                      ELSE IF grade > form.gradeToExecute THEN "GradeTooLow"
                      ELSE "none")

C23_After(flag, c) == flag \/ (c.op = "beSigned" /\ c.err = "none")

C23_On(f, log) ==
    LET on(c) == c.f = f IN SelectSeq(log, on)

RECURSIVE C23_Serial(_, _, _)
C23_Serial(f, flag, logs) ==
    IF \A b \in Bureaucrats : logs[b] = <<>>
    THEN forms[f].signed = flag
    ELSE \E b \in Bureaucrats :
            /\ logs[b] # <<>>
            /\ C23_Fits(flag, b, Head(logs[b]))
            /\ C23_Serial(f, C23_After(flag, Head(logs[b])),
                          [logs EXCEPT ![b] = Tail(logs[b])])

C23_Atomic ==
    /\ \A f \in Forms :
            Exists(f) =>
                C23_Serial(f, FALSE, [b \in Bureaucrats |-> C23_On(f, calls[b].log)])
    /\ \A b \in Bureaucrats :
            calls[b].pc = "act" => forms[calls[b].f].signed
    /\ \A b \in Bureaucrats : \A i \in 1..Len(calls[b].log) :
            LET c == calls[b].log[i] IN
            (c.op = "execute" /\ c.err = "none") =>
                \E d \in Bureaucrats : \E j \in 1..Len(calls[d].log) :
                    calls[d].log[j] = [op |-> "beSigned", f |-> c.f, err |-> "none"]

\* bob's execute read _signed before alice's beSigned wrote it and threw
\* FormNotSigned; alice's execute ran the action; bob is now inside a beSigned
\* of his own, past the grade check and before the write
C23_Witness ==
    /\ calls["alice"].pc = "idle"
    /\ calls["bob"].pc = "write"
    /\ calls["bob"].f = "f1"
    /\ calls["bob"].log = <<[op |-> "execute", f |-> "f1", err |-> "FormNotSigned"]>>
    /\ calls["alice"].log = <<[op |-> "beSigned", f |-> "f1", err |-> "none"],
                              [op |-> "execute", f |-> "f1", err |-> "none"]>>

\* C24: the Intern keeps nothing: a makeForm that returns fills an empty slot
\* with an unsigned form, whatever forms exist already (one of the same name
\* and target, signed, included), and leaves every other form as it was; a
\* makeForm that throws changes no form; beSigned and execute on a form leave
\* every other form, one of the same name and target included, as it was.
C24_Step ==
    /\ last'.op = "makeForm" =>
            /\ forms[last'.f] = NoForm
            /\ \A g \in Forms \ {last'.f} : forms'[g] = forms[g]
            /\ last'.err = "none" =>
                    /\ forms'[last'.f] # NoForm
                    /\ ~forms'[last'.f].signed
                    /\ forms'[last'.f].target = last'.arg[2]
            /\ last'.err # "none" => forms' = forms
            /\ bureaucrats' = bureaucrats
            /\ files' = files
    /\ last'.op \in {"beSigned", "execute"} =>
            \A g \in Forms \ {last'.f} : forms'[g] = forms[g]

C24_InternRetainsNothing == [][C24_Step]_vars

C24_Witness ==
    /\ last.op = "makeForm"
    /\ last.err = "none"
    /\ ~forms[last.f].signed
    /\ \E g \in Forms \ {last.f} :
            /\ Exists(g)
            /\ forms[g].kind = forms[last.f].kind
            /\ forms[g].target = forms[last.f].target
            /\ forms[g].signed

\* C25: executeAction runs only inside an execute made on a signed form by a
\* bureaucrat whose grade is gradeToExecute or better, and an execute that
\* throws does not run it.
C25_ActionGuarded ==
    /\ last.acts > 0 =>
            /\ last.op = "execute"
            /\ last.pre
            /\ last.arg <= forms[last.f].gradeToExecute
            /\ last.err = "none"
    /\ (last.op = "execute" /\ last.err # "none") => last.acts = 0

\* C26: the copy constructor and operator= hand _signed over: a form copied
\* or assigned from a signed form is signed, one assigned from an unsigned
\* form is unsigned, and an execute that follows on a form copied or assigned
\* from a signed one, by a bureaucrat of grade gradeToExecute or better,
\* runs the action although beSigned was not called on it.
C26_Step ==
    /\ last'.op \in {"copy", "operator="} =>
            /\ forms'[last'.f].signed = forms[last'.o].signed
            /\ forms'[last'.f].target = forms[last'.o].target
            /\ last'.err = "none"
    /\ (/\ last.op \in {"copy", "operator="}
        /\ forms[last.o].signed
        /\ last'.op = "execute"
        /\ last'.f = last.f
        /\ last'.arg <= forms[last.f].gradeToExecute)
       => (last'.err = "none" /\ last'.acts = 1)

C26_CopyCarriesSigned == [][C26_Step]_vars

C26_Witness ==
    /\ last.op = "operator="
    /\ last.f # last.o
    /\ ~last.pre
    /\ forms[last.f].signed
    /\ forms[last.o].signed
    /\ \E b \in Bureaucrats :
            Alive(b) /\ bureaucrats[b].grade <= forms[last.f].gradeToExecute

\* C27: a form keeps no record of who signed it: beSigned changes _signed and
\* nothing else, and the execute that follows a successful beSigned is
\* decided by the executor's grade alone, whether the executor is the signer
\* or not; a signer whose grade is above gradeToExecute gets GradeTooLow.
C27_Step ==
    /\ \A f \in Forms :
            Exists(f) => DOMAIN forms[f] = {"kind", "name", "signed", "gradeToSign",
                                           "gradeToExecute", "target"}
    /\ (last'.op = "beSigned" /\ last'.err = "none") =>
            forms'[last'.f] = [forms[last'.f] EXCEPT !.signed = TRUE]
    /\ (/\ last.op = "beSigned"
        /\ last.err = "none"
        /\ last'.op = "execute"
        /\ last'.f = last.f)
       => /\ (last'.err = "none") <=> (last'.arg <= forms[last.f].gradeToExecute)
          /\ (last'.err = "GradeTooLow") <=> (last'.arg > forms[last.f].gradeToExecute)

C27_NoSignerRecord == [][C27_Step]_vars

\* alice, the only bureaucrat of the block, at the grade she was constructed
\* with, signed the pardon (25 <= 25) and cannot execute it (25 > 5)
C27_Witness ==
    /\ last.op = "execute"
    /\ last.b = "alice"
    /\ last.pre
    /\ last.arg = 25
    /\ last.err = "GradeTooLow"
    /\ forms[last.f].kind = "Pardon"
    /\ ~Alive("bob")
    /\ moves = 0

\* C28: the Form constructor tests both grades for "below 1" before it tests
\* either for "above 150": with at least one grade below 1 it throws
\* GradeTooHigh, the other being above 150 or not, and it throws GradeTooLow
\* only when no grade is below 1 and at least one is above 150.
C28_HighBeforeLow ==
    last.op = "Form" =>
        LET s == last.arg[1]
            e == last.arg[2]
        IN  /\ (s < 1 \/ e < 1) => last.err = "GradeTooHigh"
            /\ (last.err = "GradeTooLow") <=>
                    (s >= 1 /\ e >= 1 /\ (s > 150 \/ e > 150))

C28_Witness ==
    /\ last.op = "Form"
    /\ last.arg = <<151, 0>>
    /\ last.err = "GradeTooHigh"
    /\ ~Exists(last.f)

\* C29: a Span of capacity N never holds more than N numbers; addNumber
\* throws SpanFullException exactly when the Span is full, addRange exactly
\* when the numbers held and the length of the range together exceed N, and
\* an add that throws leaves the numbers as they were; an addRange that
\* returns has appended the whole range.
C29_Step ==
    /\ span'.alive => (span'.laps = 0 /\ Len(span'.numbers) <= span'.maxSize)
    /\ last'.op = "addNumber" =>
            /\ (last'.err = "SpanFull") <=> (Len(span.numbers) >= span.maxSize)
            /\ last'.err \in {"none", "SpanFull"}
            /\ last'.err # "none" => span' = span
            /\ last'.err = "none" => span'.numbers = Append(span.numbers, last'.arg)
    /\ last'.op = "addRange" =>
            /\ (last'.err = "SpanFull") <=>
                    \/ last'.arg.laps > 0
                    \/ Len(span.numbers) + Len(last'.arg.elems) > span.maxSize
            /\ last'.err \in {"none", "SpanFull"}
            /\ last'.err # "none" => span' = span
            /\ last'.err = "none" => span'.numbers = span.numbers \o last'.arg.elems

C29_CapacityKept == [][C29_Step]_vars

\* C30: on a Span of two numbers or more longestSpan returns max - min and
\* shortestSpan the least difference of two of the numbers held, neither
\* negative, INT_MIN, 0 and INT_MAX among the numbers included; on a Span of
\* fewer than two numbers both throw SpanTooSmallException.
C30_Fits(a, b) == b >= 0 \/ a <= INT_MAX + b

C30_Spans ==
    last.op \in {"shortestSpan", "longestSpan"} =>
        LET s == stored(span)
            pairs == {p \in (1..Len(s)) \X (1..Len(s)) : p[1] # p[2] /\ s[p[1]] >= s[p[2]]}
        IN  IF Len(s) < 2
            THEN last.err = "SpanTooSmall"
            ELSE /\ last.err = "none"
                 /\ last.ret >= 0
                 /\ last.op = "longestSpan" =>
                        \E p \in pairs :
                            /\ \A i \in 1..Len(s) : s[p[2]] <= s[i] /\ s[i] <= s[p[1]]
                            /\ C30_Fits(s[p[1]], s[p[2]])
                            /\ last.ret = s[p[1]] - s[p[2]]
                 /\ last.op = "shortestSpan" =>
                        /\ \E p \in pairs :
                                /\ C30_Fits(s[p[1]], s[p[2]])
                                /\ last.ret = s[p[1]] - s[p[2]]
                        /\ \A p \in pairs :
                                C30_Fits(s[p[1]], s[p[2]]) =>
                                    last.ret <= s[p[1]] - s[p[2]]

====
